---- MODULE Spec2Model ----
(***************************************************************************)
(* Credential lifecycle of src/server.py: the module-level token state    *)
(* (_access_token, _token_expires, _session_id, _auth_state, ...) and the *)
(* coroutines that read and write it (_resolve_session,                   *)
(* _refresh_access_token, _ensure_token, the 401 branch of get_credits /  *)
(* generate_liquid_dnb), run by several asyncio tasks of one event loop.  *)
(* One action is one run of a task between two suspension points: the     *)
(* code between two awaits is atomic, every await of network I/O          *)
(* (request in flight, release of the HTTP client by `async with`) is a   *)
(* point where the other tasks run.                                        *)
(* SpecNotify is one call of _send_auth_notification of src/server.py,    *)
(* SpecBrowser the BrowserSession object of src/browser_session.py with   *)
(* its callers, the page's crash and navigation events and the clock.     *)
(***************************************************************************)
EXTENDS Integers, Sequences, FiniteSets, TLC

\* ------------------------------------------------------------- bounds
NumTasks == 2
MaxTicks == 2

Tasks == 1 .. NumTasks

\* ------------------------------------------------- program constants
TOKEN_REFRESH_MARGIN == 30
MAX_REFRESH_FAILURES == 3
TOKEN_TTL == 55

\* the legacy direct access token of SUNO_SESSION_TOKEN
SUNO_SESSION_TOKEN == "legacy"
\* None of `float | None`
None == -1
\* no token handed to the caller (yet)
NoToken == "<none>"
\* no call of _send_auth_notification
NoReason == "<none>"

\* values of the "jwt" field of a 2xx token response; "" is a response
\* without the field (data.get("jwt", ""))
Jwts == {"jwtA"}
\* how a token exchange can fail: "http" is a transport error, a timeout
\* or a non-2xx status (an httpx exception), "nojwt" a 2xx body without
\* the field
ExchangeErrors == {"http", "nojwt"}
\* how the "current client" request can end: transport error, non-2xx,
\* or a 2xx body [last |-> last_active_session_id, sessions |-> ids]
ResolveBodies ==
    { [last |-> l, sessions |-> s] : l \in {"", "sessA"}, s \in {<<>>, <<"sessB">>} }
\* the clock advances by one of these steps, MaxTicks times
TickSteps == {1, 25}
MaxTime == MaxTicks * 25
\* credential configurations: SUNO_REFRESH_TOKEN set; only
\* SUNO_SESSION_TOKEN set; neither set
Modes == {"refresh", "legacy", "unset"}

\* ---- _send_auth_notification
\* the three webhook settings, in the order of line 280
WebhookOrder == <<"generic", "slack", "discord">>
WebhookSlots == {"generic", "slack", "discord"}
\* line 289: detail[:300]
DETAIL_LIMIT == 300
\* lengths of the detail argument
DetailLens == {0, 300, 301}
\* the two reasons the callers pass (lines 216, 521, 606)
Reasons == {"clerk_refresh_failed", "suno_billing_401"}
\* how client.post can end: a response of either kind, or an exception
\* (transport error, timeout)
PostOutcomes == {"2xx", "non2xx", "exception"}
NoMessage == [reason |-> NoReason, detail |-> 0]

\* ---- BrowserSession
\* navigation events delivered to one page
MaxNav == 1
\* line 182: the page is reloaded when the last settle is older than this
STALE_AFTER == 1800
\* line 231: a token must be longer than this
MIN_TOKEN_LEN == 20
\* the clock of the browser session advances by one of these steps
BrowserTickSteps == {1, STALE_AFTER}
\* line 126: the defaults of _wait_for_page_stable, which every caller
\* takes (lines 102, 116, 186, 212)
SETTLE_TIME == 3
MAX_WAIT == 30
\* line 148: the default of _wait_for_hcaptcha (lines 119, 187), and
\* line 215: the timeout get_hcaptcha_token passes
HCAPTCHA_TIMEOUT == 30
TOKEN_HCAPTCHA_TIMEOUT == 15
\* line 161: the pause between two polls
POLL_SLEEP == 1
\* a sleep or a page.evaluate call ends this much later than asked, at most
Lateness == 1
\* the clock of the wait loops stops here
MaxClock == 40
\* navigation events counted during one settle window
MaxNavPerWindow == 1
\* how one poll of _wait_for_hcaptcha can end (lines 152-160)
PollResults == {"true", "false", "exception"}
\* lines 77-80: the domains the __client cookie is added for
CookieDomains_one == {".suno.com"}
CookieDomains == {".suno.com", ".clerk.suno.com"}
\* lines 86, 90: the events of the page a handler is registered for
PageEvents == {"crash", "framenavigated"}
\* a step that adds no cookie and registers no handler
NoWiring == [cookies |-> {}, handlers |-> {}]
\* ---- SunoV2Client
\* refresh attempts of one keep-alive thread
MaxRefreshes == 5
\* how _refresh_access_token can end (lines 100-113): with a jwt, or with
\* an exception of the request, of raise_for_status, or of line 112
RefreshOutcomes == {"jwt", "transport", "status", "nojwt"}
\* no SunoV2Client has been constructed
NoClient == [at |-> "none", stop |-> FALSE, token |-> 0, n |-> 0, after |-> 0, last |-> "none"]

\* no wait loop is followed
NoWait == [fn |-> "none", at |-> "done", deadline |-> 0, before |-> 0,
           last |-> "none", out |-> "none"]
\* what the hCaptcha script can hand back (lines 218-229): null, a value
\* that is not a string, or a string of some length
Responses ==
    {[kind |-> "null", len |-> 0], [kind |-> "object", len |-> 0]}
        \cup {[kind |-> "string", len |-> n] : n \in {1, MIN_TOKEN_LEN, MIN_TOKEN_LEN + 1}}
\* what the fetch script can hand back (lines 262-288): null, a payload
\* with the error flag, a parsed body (a dict with entries, the flag not
\* set), an empty dict, a value that is not a dict
FetchResults ==
    {[kind |-> k, len |-> 0] : k \in {"null", "error", "body", "empty", "other"}}
\* page.evaluate raised
ScriptException == [kind |-> "exception", len |-> 0]
\* the teardown steps of close(), in the order of lines 303-322
CloseOrder == <<"page", "context", "browser", "playwright">>
ClosePc == <<"c_page", "c_context", "c_browser", "c_playwright">>
\* the two methods that take self._lock
LockedOps == {"get_hcaptcha_token", "generate_via_browser"}
\* a close() that has done nothing yet
EmptyLog == [tried |-> {}, failed |-> {}, absent |-> {}]
NoResponse == [kind |-> "none", len |-> 0]
NoResult == [op |-> "none", out |-> "none", resp |-> NoResponse, val |-> NoResponse]

VARIABLES
    mode,                          \* which of the two secrets is configured
    now,                           \* time.monotonic() / time.time()
    access_token,                  \* _access_token
    token_expires,                 \* _token_expires
    session_id,                    \* _session_id
    auth_state,                    \* _auth_state
    last_auth_error,               \* _last_auth_error
    last_refresh_at,               \* _last_refresh_at
    consecutive_refresh_failures,  \* _consecutive_refresh_failures
    reauth_required_since,         \* _reauth_required_since
    pc,                            \* where each task is suspended
    exc,                           \* the exception a task is propagating
    tok,                           \* the token _ensure_token returned to the task
    ret,                           \* how the last tool call to end ended
    notified,                      \* reason of the _send_auth_notification call of the last step
    stage,                         \* "poll" while the task's tool call is inside _poll_generation
    ticks,                         \* steps the clock has made
    \* ---- BrowserSession of src/browser_session.py
    playwright,                    \* self._playwright is set
    browser,                       \* self._browser is set
    context,                       \* self._context is set
    page,                          \* self._page: "none", or the condition of the page it holds
    url,                           \* self._page.url
    initialized,                   \* self._initialized
    last_nav_time,                 \* self._last_nav_time
    nav_count,                     \* self._nav_count
    lock,                          \* holder of self._lock, 0 when free
    bpc,                           \* where each caller of the session is suspended
    bop,                           \* the method of the session each caller is in
    navb,                          \* nav_before of the caller's _wait_for_page_stable
    clog,                          \* what the caller's running close() has done so far
    lastclose,                     \* what the close() that the last step completed did
    bret,                          \* how the method of the session that the last step ended, ended
    wired,                         \* the cookies the last step added and the handlers it registered
    wait,                          \* the wait loop that is followed pass by pass, and where it is
    \* ---- _send_auth_notification of src/server.py
    webhooks,                      \* which of the three webhook URLs are configured
    npc,                           \* where the notification call is
    nrest,                         \* targets the loop has still to post to
    nmsg,                          \* length of the detail the message carries
    attempts,                      \* posts made to each URL by the current call
    nret,                          \* how the last notification call ended
    \* ---- SunoV2Client of src/suno_client.py
    ka                             \* the client: its token, its stop event, its keep-alive thread

globals == <<access_token, token_expires, session_id, auth_state, last_auth_error,
             last_refresh_at, consecutive_refresh_failures, reauth_required_since>>
\* the fields of the BrowserSession object
session == <<playwright, browser, context, page, url, initialized, last_nav_time, nav_count>>
bvars == <<session, lock, bpc, bop, navb, clog, lastclose, bret, wired, wait>>
nvars == <<webhooks, npc, nrest, nmsg, attempts, nret>>
cvars == <<globals, pc, exc, tok, ret, notified, stage>>
vars == <<mode, now, ticks, globals, pc, exc, tok, ret, notified, stage, bvars, nvars, ka>>

\* ------------------------------------------------ pieces of the code

\* _ensure_token, line 235
NeedsRefresh_ge(token, expires, t) ==
    token = "" \/ t >= expires - TOKEN_REFRESH_MARGIN
NeedsRefresh(token, expires, t) ==
    token = "" \/ t > expires - TOKEN_REFRESH_MARGIN

\* _ensure_token, line 229: `if SUNO_REFRESH_TOKEN:`
UsesRefreshFlow(m) == m = "refresh"

\* _ensure_token, line 230
FailsFast(state) == state = "reauth_required"

\* _refresh_access_token, line 212
ReachedThreshold_gt(n) == n > MAX_REFRESH_FAILURES
ReachedThreshold(n) == n >= MAX_REFRESH_FAILURES

\* _refresh_access_token, lines 209-213: the state a failed exchange leaves
StateAfterFailure_degraded(n) == "degraded"
StateAfterFailure(n) == IF ReachedThreshold(n) THEN "reauth_required" ELSE "degraded"

\* _refresh_access_token, lines 217-221: the error a failed exchange raises
ErrorAfterFailure_transient(n) == "refresh_failed"
ErrorAfterFailure(n) == IF ReachedThreshold(n) THEN "reauth_required" ELSE "refresh_failed"

\* _refresh_access_token, line 202
StateAfterSuccess_keep(state) == IF state = "degraded" THEN "degraded" ELSE "ok"
StateAfterSuccess(state) == "ok"

\* _refresh_access_token, line 200
FailuresAfterSuccess_keep(n) == n
FailuresAfterSuccess(n) == 0

\* get_credits line 602, generate_liquid_dnb line 517
StateAfter401_threshold(state, n) == IF ReachedThreshold(n) THEN "reauth_required" ELSE state
StateAfter401(state, n) == "reauth_required"

\* _refresh_access_token line 216: the reason a failed exchange hands to
\* _send_auth_notification, NoReason when it does not call it
NotifiesAfterFailure(n) == IF ReachedThreshold(n) THEN "clerk_refresh_failed" ELSE NoReason

\* get_credits line 606 (generate_liquid_dnb line 521): the reason a 401
\* hands to _send_auth_notification
NotifiesAfter401(state) == "suno_billing_401"

\* line 207: `_consecutive_refresh_failures += 1`
FailuresAfterFailure_same(n) == n
FailuresAfterFailure(n) == n + 1

\* lines 219-221: the except clause re-raises, whatever the count; the
\* value is where the task goes next
AfterRefreshFailure_retry(n) == IF ReachedThreshold(n) THEN "idle" ELSE "exchange"
AfterRefreshFailure(n) == "idle"

\* line 167: `if not _session_id:`
EmptyId_never(id) == FALSE
EmptyId(id) == id = ""

\* the request a task sends with the token _ensure_token returned: the
\* tool's own (lines 507, 592), or the status request of
\* _poll_generation (line 411)
RequestPc(st) == IF st = "poll" THEN "poll" ELSE "request"

\* lines 214-215, 519-520, 604-605
SinceAfterReauth_overwrite(since, t) == t
SinceAfterReauth(since, t) == IF since = None THEN t ELSE since

\* _resolve_session, lines 160-165: the id a 2xx body yields ("" if none)
ResolvedId(body) ==
    IF body.last # "" THEN body.last
    ELSE IF Len(body.sessions) > 0 THEN body.sessions[1] ELSE ""

TypeOK ==
    /\ mode \in Modes
    /\ now \in 0 .. MaxTime
    /\ access_token \in Jwts \cup {""}
    /\ token_expires \in 0 .. (MaxTime + TOKEN_TTL)
    /\ session_id \in {"", "sessA", "sessB"}
    /\ auth_state \in {"ok", "degraded", "reauth_required"}
    /\ last_auth_error \in {"", "http", "nojwt", "401"}
    /\ last_refresh_at \in {None} \cup (0 .. MaxTime)
    /\ consecutive_refresh_failures \in 0 .. (MAX_REFRESH_FAILURES + NumTasks)
    /\ reauth_required_since \in {None} \cup (0 .. MaxTime)
    /\ pc \in [Tasks -> {"idle", "resolve", "resolve_close", "exchange", "exchange_close",
                         "fail_close", "request"}]
    /\ exc \in [Tasks -> {"", "http", "nojwt"}]
    /\ tok \in [Tasks -> Jwts \cup {"", NoToken, SUNO_SESSION_TOKEN}]
    /\ notified \in {NoReason, "clerk_refresh_failed", "suno_billing_401"}
    /\ ticks \in 0 .. MaxTicks

\* module-level state of server.py at import, lines 51-62
CredInit ==
    /\ access_token = ""
    /\ token_expires = 0
    /\ session_id = ""
    /\ auth_state = "ok"
    /\ last_auth_error = ""
    /\ last_refresh_at = None
    /\ consecutive_refresh_failures = 0
    /\ reauth_required_since = None
    /\ pc = [t \in Tasks |-> "idle"]
    /\ exc = [t \in Tasks |-> ""]
    /\ tok = [t \in Tasks |-> NoToken]
    /\ ret = "none"
    /\ notified = NoReason
    /\ stage = [t \in Tasks |-> "first"]

\* BrowserSession.__init__, lines 23-31; nobody has called the session
BrowserInit ==
    /\ playwright = FALSE
    /\ browser = FALSE
    /\ context = FALSE
    /\ page = "none"
    /\ url = "blank"
    /\ initialized = FALSE
    /\ last_nav_time = 0
    /\ nav_count = 0
    /\ lock = 0
    /\ bpc = [t \in Tasks |-> "idle"]
    /\ bop = [t \in Tasks |-> "none"]
    /\ navb = [t \in Tasks |-> 0]
    /\ clog = [t \in Tasks |-> EmptyLog]
    /\ lastclose = EmptyLog
    /\ bret = NoResult
    /\ wired = NoWiring
    /\ wait = NoWait

\* no SunoV2Client exists
ClientIdle == ka = NoClient

\* no notification call has been made
NotifyIdle ==
    /\ npc = "idle"
    /\ nrest = <<>>
    /\ nmsg = NoMessage
    /\ attempts = [u \in WebhookSlots |-> <<>>]
    /\ nret = "none"

Init ==
    /\ mode \in Modes
    /\ now = 0
    /\ ticks = 0
    /\ CredInit
    /\ BrowserInit
    /\ webhooks = {}
    /\ NotifyIdle
    /\ ClientIdle

\* ------------------------------------------------------------ actions
\* A tool call (get_credits) starts: `await _get_auth_headers()` runs
\* _ensure_token up to its first suspension point.

\* _ensure_token lines 230-234: raises; get_credits returns "Error: ..."
EnsureTokenFailFast(t) ==
    /\ pc[t] = "idle"
    /\ UsesRefreshFlow(mode) /\ FailsFast(auth_state)
    /\ tok' = [tok EXCEPT ![t] = NoToken]
    /\ ret' = "error_reauth_state"
    /\ notified' = NoReason
    /\ UNCHANGED <<mode, bvars, nvars, ka, stage, now, ticks, globals, pc, exc>>

\* _ensure_token lines 235-237 with a fresh cached token: no await is
\* reached, the token goes to the caller, who sends the resource request
EnsureTokenCached(t) ==
    /\ pc[t] = "idle"
    /\ UsesRefreshFlow(mode) /\ ~FailsFast(auth_state)
    /\ ~NeedsRefresh(access_token, token_expires, now)
    /\ tok' = [tok EXCEPT ![t] = access_token]
    /\ UNCHANGED ret
    /\ pc' = [pc EXCEPT ![t] = "request"]
    /\ notified' = NoReason
    /\ UNCHANGED <<mode, bvars, nvars, ka, stage, now, ticks, globals, exc>>

\* _ensure_token line 236 -> _refresh_access_token line 180 ->
\* _resolve_session: with a cached session id (lines 147-148) the token
\* exchange is posted at once (line 184), otherwise the "current client"
\* request is sent (line 151)
EnsureTokenRefresh(t) ==
    /\ pc[t] = "idle"
    /\ UsesRefreshFlow(mode) /\ ~FailsFast(auth_state)
    /\ NeedsRefresh(access_token, token_expires, now)
    /\ tok' = [tok EXCEPT ![t] = NoToken]
    /\ UNCHANGED ret
    /\ pc' = [pc EXCEPT ![t] = IF session_id # "" THEN "exchange" ELSE "resolve"]
    /\ notified' = NoReason
    /\ UNCHANGED <<mode, bvars, nvars, ka, stage, now, ticks, globals, exc>>

\* _ensure_token lines 240-241: the legacy token is returned as it is
EnsureTokenLegacy(t) ==
    /\ pc[t] = "idle"
    /\ ~UsesRefreshFlow(mode) /\ mode = "legacy"
    /\ tok' = [tok EXCEPT ![t] = SUNO_SESSION_TOKEN]
    /\ UNCHANGED ret
    /\ pc' = [pc EXCEPT ![t] = "request"]
    /\ notified' = NoReason
    /\ UNCHANGED <<mode, bvars, nvars, ka, stage, now, ticks, globals, exc>>

\* _ensure_token line 243
EnsureTokenUnset(t) ==
    /\ pc[t] = "idle"
    /\ ~UsesRefreshFlow(mode) /\ mode = "unset"
    /\ tok' = [tok EXCEPT ![t] = NoToken]
    /\ ret' = "error_no_credentials"
    /\ notified' = NoReason
    /\ UNCHANGED <<mode, bvars, nvars, ka, stage, now, ticks, globals, pc, exc>>

\* _resolve_session lines 151-157: the request fails (transport error,
\* timeout, non-2xx). The exception leaves _refresh_access_token at line
\* 180, outside its try, and ends the tool call in get_credits' except.
ResolveFails(t) ==
    /\ pc[t] = "resolve"
    /\ ret' = "error_resolve_http"
    /\ pc' = [pc EXCEPT ![t] = "idle"]
    /\ stage' = [stage EXCEPT ![t] = "first"]
    /\ notified' = NoReason
    /\ UNCHANGED <<mode, bvars, nvars, ka, now, ticks, globals, exc, tok>>

\* _resolve_session lines 158-171 on a 2xx body: _session_id is assigned
\* from the body (also when the body yields nothing), line 168 raises on
\* an empty id, line 171 returns through the exit of `async with`
ResolveResponds(t) ==
    /\ pc[t] = "resolve"
    /\ \E body \in ResolveBodies :
         /\ session_id' = ResolvedId(body)
         /\ IF EmptyId(ResolvedId(body))
            THEN /\ ret' = "error_session_resolution"
                 /\ pc' = [pc EXCEPT ![t] = "idle"]
                 /\ stage' = [stage EXCEPT ![t] = "first"]
            ELSE /\ pc' = [pc EXCEPT ![t] = "resolve_close"]
                 /\ UNCHANGED <<ret, stage>>
    /\ notified' = NoReason
    /\ UNCHANGED <<mode, bvars, nvars, ka, now, ticks, access_token, token_expires, auth_state, last_auth_error,
                   last_refresh_at, consecutive_refresh_failures, reauth_required_since,
                   exc, tok>>

\* _refresh_access_token lines 182-184: the HTTP client of
\* _resolve_session is released and the token exchange is posted
ExchangeStarts(t) ==
    /\ pc[t] = "resolve_close"
    /\ pc' = [pc EXCEPT ![t] = "exchange"]
    /\ notified' = NoReason
    /\ UNCHANGED <<mode, bvars, nvars, ka, stage, now, ticks, globals, exc, tok, ret>>

\* _refresh_access_token lines 190-205: a 2xx body with a "jwt"
ExchangeSucceeds(t) ==
    /\ pc[t] = "exchange"
    /\ \E jwt \in Jwts : access_token' = jwt
    /\ token_expires' = now + TOKEN_TTL
    /\ last_refresh_at' = now
    /\ consecutive_refresh_failures' = FailuresAfterSuccess(consecutive_refresh_failures)
    /\ last_auth_error' = ""
    /\ auth_state' = StateAfterSuccess(auth_state)
    /\ reauth_required_since' = None
    /\ pc' = [pc EXCEPT ![t] = "exchange_close"]
    /\ notified' = NoReason
    /\ UNCHANGED <<mode, bvars, nvars, ka, stage, now, ticks, session_id, exc, tok, ret>>

\* _refresh_access_token lines 184-195: the exchange raises. A 2xx body
\* without "jwt" has been stored in _access_token by line 193 before line
\* 195 raises. The exception first leaves `async with` (the client is
\* released), then reaches the except clause.
ExchangeFails(t) ==
    /\ pc[t] = "exchange"
    /\ \E e \in ExchangeErrors :
         /\ exc' = [exc EXCEPT ![t] = e]
         /\ access_token' = IF e = "nojwt" THEN "" ELSE access_token
    /\ pc' = [pc EXCEPT ![t] = "fail_close"]
    /\ notified' = NoReason
    /\ UNCHANGED <<mode, bvars, nvars, ka, stage, now, ticks, token_expires, session_id, auth_state, last_auth_error,
                   last_refresh_at, consecutive_refresh_failures, reauth_required_since,
                   tok, ret>>

\* _refresh_access_token line 205 returns through the exit of `async
\* with`; _ensure_token line 237 then reads _access_token again, and the
\* caller sends its request
RefreshReturns(t) ==
    /\ pc[t] = "exchange_close"
    /\ tok' = [tok EXCEPT ![t] = access_token]
    /\ pc' = [pc EXCEPT ![t] = RequestPc(stage[t])]
    /\ notified' = NoReason
    /\ UNCHANGED <<mode, bvars, nvars, ka, stage, now, ticks, globals, exc, ret>>

\* _refresh_access_token lines 206-221: the except clause. At the
\* threshold _send_auth_notification is called (line 216) and the
\* re-authentication error raised after it; nothing that follows the call
\* reads or writes the credential state, so the delivery is part of this
\* step. get_credits returns "Error: ..." for either error.
RefreshFails(t) ==
    /\ pc[t] = "fail_close"
    /\ LET n == FailuresAfterFailure(consecutive_refresh_failures) IN
         /\ consecutive_refresh_failures' = n
         /\ pc' = [pc EXCEPT ![t] = AfterRefreshFailure(n)]
         /\ stage' = [stage EXCEPT ![t] = IF AfterRefreshFailure(n) = "idle" THEN "first" ELSE @]
         /\ last_auth_error' = exc[t]
         /\ auth_state' = StateAfterFailure(n)
         /\ reauth_required_since' =
                IF ReachedThreshold(n) THEN SinceAfterReauth(reauth_required_since, now)
                ELSE reauth_required_since
         /\ notified' = NotifiesAfterFailure(n)
         /\ ret' = "error_" \o ErrorAfterFailure(n)
    /\ exc' = [exc EXCEPT ![t] = ""]
    /\ UNCHANGED <<mode, bvars, nvars, ka, now, ticks, access_token, token_expires, session_id, last_refresh_at,
                   tok>>

\* get_credits lines 600-611 (generate_liquid_dnb lines 515-526): the
\* resource API answers 401; the tool returns its AUTH_401 response after
\* the call of _send_auth_notification
RequestUnauthorized(t) ==
    /\ pc[t] = "request"
    /\ auth_state' = StateAfter401(auth_state, consecutive_refresh_failures)
    /\ last_auth_error' = "401"
    /\ reauth_required_since' = SinceAfterReauth(reauth_required_since, now)
    /\ notified' = NotifiesAfter401(auth_state)
    /\ ret' = "AUTH_401"
    /\ tok' = [tok EXCEPT ![t] = NoToken]
    /\ pc' = [pc EXCEPT ![t] = "idle"]
    /\ UNCHANGED <<mode, bvars, nvars, ka, stage, now, ticks, access_token, token_expires, session_id, last_refresh_at,
                   consecutive_refresh_failures, exc>>

\* get_credits lines 613-621: any other answer ends the tool call
RequestCompletes(t) ==
    /\ pc[t] = "request"
    /\ ret' = "done"
    /\ tok' = [tok EXCEPT ![t] = NoToken]
    /\ pc' = [pc EXCEPT ![t] = "idle"]
    /\ notified' = NoReason
    /\ UNCHANGED <<mode, bvars, nvars, ka, stage, now, ticks, globals, exc>>

\* The clock advances. Releasing an HTTP client takes no time on the
\* scale of the token lifetime, so the clock stands while a task does it.
Tick ==
    /\ \A t \in Tasks : pc[t] \notin {"resolve_close", "exchange_close", "fail_close"}
    /\ ticks < MaxTicks
    /\ ticks' = ticks + 1
    /\ \E d \in TickSteps : now' = now + d
    /\ notified' = NoReason
    /\ UNCHANGED <<mode, bvars, nvars, ka, stage, globals, pc, exc, tok, ret>>

Next ==
    \/ \E t \in Tasks :
         \/ EnsureTokenFailFast(t)
         \/ EnsureTokenCached(t)
         \/ EnsureTokenRefresh(t)
         \/ EnsureTokenLegacy(t)
         \/ EnsureTokenUnset(t)
         \/ ResolveFails(t)
         \/ ResolveResponds(t)
         \/ ExchangeStarts(t)
         \/ ExchangeSucceeds(t)
         \/ ExchangeFails(t)
         \/ RefreshReturns(t)
         \/ RefreshFails(t)
         \/ RequestUnauthorized(t)
         \/ RequestCompletes(t)
    \/ Tick

Spec == Init /\ [][Next]_vars

\* ------------------------------------------------- _poll_generation
\* generate_liquid_dnb goes on after its generation request: lines
\* 399-429 ask for the status of the clips until all are complete, each
\* time with the headers of a new _ensure_token call.

\* one pass of the loop of _poll_generation up to its first await:
\* _get_auth_headers (line 410) runs _ensure_token, lines 229-241
PollIteration(t) ==
    /\ notified' = NoReason
    /\ IF UsesRefreshFlow(mode)
       THEN IF FailsFast(auth_state)
            THEN /\ ret' = "error_reauth_state"
                 /\ pc' = [pc EXCEPT ![t] = "idle"]
                 /\ tok' = [tok EXCEPT ![t] = NoToken]
                 /\ stage' = [stage EXCEPT ![t] = "first"]
            ELSE IF NeedsRefresh(access_token, token_expires, now)
            THEN /\ pc' = [pc EXCEPT ![t] = IF session_id # "" THEN "exchange" ELSE "resolve"]
                 /\ tok' = [tok EXCEPT ![t] = NoToken]
                 /\ stage' = [stage EXCEPT ![t] = "poll"]
                 /\ UNCHANGED ret
            ELSE /\ pc' = [pc EXCEPT ![t] = "poll"]
                 /\ tok' = [tok EXCEPT ![t] = access_token]
                 /\ stage' = [stage EXCEPT ![t] = "poll"]
                 /\ UNCHANGED ret
       ELSE /\ pc' = [pc EXCEPT ![t] = "poll"]
            /\ tok' = [tok EXCEPT ![t] = SUNO_SESSION_TOKEN]
            /\ stage' = [stage EXCEPT ![t] = "poll"]
            /\ UNCHANGED ret
    /\ UNCHANGED <<mode, bvars, nvars, ka, now, ticks, globals, exc>>

\* generate_liquid_dnb lines 531-541: the generation request is answered
\* 2xx with clips and _poll_generation begins
GenerationStarted(t) ==
    /\ pc[t] = "request"
    /\ PollIteration(t)

\* _poll_generation line 416: the status request is answered 401;
\* raise_for_status raises and generate_liquid_dnb returns "Error: API
\* request failed with status 401" from its except of lines 580-582
PollUnauthorized(t) ==
    /\ pc[t] = "poll"
    /\ ret' = "error_poll_401"
    /\ pc' = [pc EXCEPT ![t] = "idle"]
    /\ tok' = [tok EXCEPT ![t] = NoToken]
    /\ stage' = [stage EXCEPT ![t] = "first"]
    /\ notified' = NoReason
    /\ UNCHANGED <<mode, bvars, nvars, ka, now, ticks, globals, exc>>

\* lines 417-429: the clips are not all complete, the loop sleeps
PollPending(t) ==
    /\ pc[t] = "poll"
    /\ pc' = [pc EXCEPT ![t] = "poll_sleep"]
    /\ tok' = [tok EXCEPT ![t] = NoToken]
    /\ notified' = NoReason
    /\ UNCHANGED <<mode, bvars, nvars, ka, now, ticks, globals, exc, ret, stage>>

\* lines 405-411: the sleep is over and the next pass begins
PollWakes(t) ==
    /\ pc[t] = "poll_sleep"
    /\ PollIteration(t)

\* lines 405-407: the sleep is over, more than `timeout` after the start
\* (the model keeps no start time: any wake-up may be the late one)
PollTimesOut(t) ==
    /\ pc[t] = "poll_sleep"
    /\ ret' = "error_poll_timeout"
    /\ pc' = [pc EXCEPT ![t] = "idle"]
    /\ stage' = [stage EXCEPT ![t] = "first"]
    /\ notified' = NoReason
    /\ UNCHANGED <<mode, bvars, nvars, ka, now, ticks, globals, exc, tok>>

\* lines 417-426, 541-578: all clips are complete and the tool call ends
\* with the download results (a status other than 2xx or 401 ends it with
\* an error text instead: the same step for the credential state)
PollCompletes(t) ==
    /\ pc[t] = "poll"
    /\ ret' = "done"
    /\ pc' = [pc EXCEPT ![t] = "idle"]
    /\ tok' = [tok EXCEPT ![t] = NoToken]
    /\ stage' = [stage EXCEPT ![t] = "first"]
    /\ notified' = NoReason
    /\ UNCHANGED <<mode, bvars, nvars, ka, now, ticks, globals, exc>>

GenerateNext ==
    \/ Next
    \/ \E t \in Tasks :
         \/ GenerationStarted(t)
         \/ PollUnauthorized(t)
         \/ PollPending(t)
         \/ PollWakes(t)
         \/ PollTimesOut(t)
         \/ PollCompletes(t)

SpecGenerate == Init /\ [][GenerateNext]_vars

\* ------------------------------------------------------------- claims
\* the tasks that are inside _refresh_access_token
Refreshing == { t \in Tasks : pc[t] \in {"resolve", "resolve_close", "exchange",
                                         "exchange_close", "fail_close"} }
\* task t starts a tool call in this step and the call gets past _ensure_token's checks
Proceeds(t) == pc[t] = "idle" /\ pc'[t] # "idle"
\* task t sends a session-resolution or a token-exchange request in this step
SendsAuthRequest(t) == pc'[t] # pc[t] /\ pc'[t] \in {"resolve", "exchange"}

\* C1: every token _ensure_token hands to its caller is non-empty and, in
\* the refresh flow, unexpired at the moment it is returned.
C1_HandedTokenValid ==
    [][\A t \in Tasks :
         (pc[t] # "request" /\ pc'[t] = "request") =>
            /\ tok'[t] \notin {"", NoToken}
            /\ UsesRefreshFlow(mode) => now < token_expires]_vars

\* C2 (as claimed): the state is reauth_required exactly when the
\* consecutive failures have reached MAX_REFRESH_FAILURES.
C2_ReauthIffThreshold ==
    (auth_state = "reauth_required") <=> (consecutive_refresh_failures >= MAX_REFRESH_FAILURES)

\* C2 (amended): whenever the consecutive failures have reached
\* MAX_REFRESH_FAILURES the state is reauth_required; the converse is what
\* a downstream 401 breaks.
C2_ThresholdImpliesReauth ==
    (consecutive_refresh_failures >= MAX_REFRESH_FAILURES) => (auth_state = "reauth_required")

C2_ThresholdReached ==
    /\ consecutive_refresh_failures >= MAX_REFRESH_FAILURES
    /\ auth_state = "reauth_required"
    /\ ret = "error_reauth_required"

\* C3: the notification sink is called only by a step that takes the
\* state from ok or degraded into reauth_required, never by a step that
\* finds the state already reauth_required.
C3_NotifiedOncePerIncident ==
    [][notified' # NoReason =>
         (auth_state # "reauth_required" /\ auth_state' = "reauth_required")]_vars

\* C4: the k-th consecutive failed exchange, k < MAX_REFRESH_FAILURES,
\* leaves the state degraded and fails the call with the transient error;
\* the MAX_REFRESH_FAILURES-th sets reauth_required and fails the call
\* with the re-authentication error.
C4_FailureEscalates ==
    [][\A t \in Tasks :
         (pc[t] = "fail_close" /\ pc'[t] # "fail_close") =>
            LET k == consecutive_refresh_failures + 1 IN
              /\ k < MAX_REFRESH_FAILURES =>
                    (auth_state' = "degraded" /\ ret' = "error_refresh_failed")
              /\ k = MAX_REFRESH_FAILURES =>
                    (auth_state' = "reauth_required" /\ ret' = "error_reauth_required")]_vars

C4_EscalatedAtThreshold ==
    /\ consecutive_refresh_failures = MAX_REFRESH_FAILURES
    /\ auth_state = "reauth_required"
    /\ notified = "clerk_refresh_failed"
    /\ ret = "error_reauth_required"
    /\ last_auth_error \in ExchangeErrors

\* C5: a successful exchange after N < MAX_REFRESH_FAILURES consecutive
\* failures leaves the state ok and the failure count 0.
C5_SuccessResets ==
    [][\A t \in Tasks :
         (pc[t] = "exchange" /\ pc'[t] = "exchange_close"
            /\ consecutive_refresh_failures < MAX_REFRESH_FAILURES) =>
            (auth_state' = "ok" /\ consecutive_refresh_failures' = 0)]_vars

\* a call has failed with the transient error and an exchange has
\* succeeded since (the count is back to 0, the task is still returning)
C5_RecoveredAfterFailure ==
    /\ ret = "error_refresh_failed"
    /\ \E t \in Tasks : pc[t] = "exchange_close"
    /\ auth_state = "ok"
    /\ consecutive_refresh_failures = 0
    /\ last_refresh_at = now

\* C6: no session-resolution or token-exchange request is sent while the
\* state is reauth_required.
C6_NoAuthRequestInReauth ==
    [][\A t \in Tasks : SendsAuthRequest(t) => auth_state # "reauth_required"]_vars

\* C7: a tool call that reaches _ensure_token while the state is
\* reauth_required gets no token and goes no further, in every credential
\* configuration.
C7_FailsFastInReauth ==
    [][\A t \in Tasks :
         (pc[t] = "idle" /\ auth_state = "reauth_required") =>
            (pc'[t] = "idle" /\ tok'[t] = NoToken)]_vars

\* C8: a call that gets past the reauth check at a time up to 25 after
\* the last successful refresh is handed the cached token without an
\* exchange; later than that it posts a token exchange.
C8_CachedWithinWindow ==
    [][\A t \in Tasks :
         (Proceeds(t) /\ UsesRefreshFlow(mode) /\ last_refresh_at # None) =>
            IF now <= last_refresh_at + (TOKEN_TTL - TOKEN_REFRESH_MARGIN)
            THEN pc'[t] = "request" /\ tok'[t] = access_token
            ELSE pc'[t] = "exchange"]_vars

\* C9: a 401 of the resource API received in state ok or degraded sets
\* the state to reauth_required and leaves the failure count as it was.
C9_UnauthorizedForcesReauth ==
    [][\A t \in Tasks :
         (pc[t] = "request" /\ ret' = "AUTH_401" /\ pc'[t] = "idle"
            /\ auth_state \in {"ok", "degraded"}) =>
            /\ auth_state' = "reauth_required"
            /\ consecutive_refresh_failures' = consecutive_refresh_failures]_vars

C9_ReauthWithoutFailures ==
    /\ auth_state = "reauth_required"
    /\ consecutive_refresh_failures = 0
    /\ ret = "AUTH_401"
    /\ notified = "suno_billing_401"

\* C10: at most one task is inside _refresh_access_token at any time.
C10_OneRefreshAtATime == Cardinality(Refreshing) <= 1

\* C11: once the state is reauth_required no step changes it.
C11_ReauthIsTerminal ==
    [][auth_state = "reauth_required" => auth_state' = "reauth_required"]_vars

\* C20: a successful token exchange stores the token, sets the expiry to
\* now + 55, resets the failure count, clears the last error, sets the
\* state ok, clears reauth_required_since and records the refresh time, in
\* the one step that handles the response.
C20_SuccessStoresAll ==
    [][\A t \in Tasks :
         (pc[t] = "exchange" /\ pc'[t] = "exchange_close") =>
            /\ access_token' \in Jwts
            /\ token_expires' = now + TOKEN_TTL
            /\ consecutive_refresh_failures' = 0
            /\ last_auth_error' = ""
            /\ auth_state' = "ok"
            /\ reauth_required_since' = None
            /\ last_refresh_at' = now]_vars

\* an exchange has just succeeded, later than time 0, after the state had
\* been left degraded or reauth_required by a call that ended in error
C20_RefreshedAfterError ==
    /\ \E t \in Tasks : pc[t] = "exchange_close"
    /\ ret \in {"AUTH_401", "error_refresh_failed", "error_reauth_required"}
    /\ now > 0 /\ last_refresh_at = now /\ token_expires = now + TOKEN_TTL
    /\ access_token \in Jwts /\ auth_state = "ok"
    /\ consecutive_refresh_failures = 0 /\ last_auth_error = ""
    /\ reauth_required_since = None

\* ------------------------------------------ _send_auth_notification
\* One call of _send_auth_notification(reason, detail), server.py lines
\* 278-298, with any subset of the three webhook URLs configured. Every
\* `await client.post` is a suspension point that ends with a response
\* or an exception.

\* line 280: the configured URLs, in order
Targets(cfg) == SelectSeq(WebhookOrder, LAMBDA u : u \in cfg)

\* lines 288-289: the part of the detail the message carries
MessageDetail(len) == IF len > DETAIL_LIMIT THEN DETAIL_LIMIT ELSE len

\* lines 294-298: `except Exception` is inside the loop, so the loop goes
\* on to the next URL however the post ended
RemainingAfterPost_abort(rest, o) == IF o = "exception" THEN <<>> ELSE Tail(rest)
RemainingAfterPost(rest, o) == Tail(rest)

\* lines 297-298: no outcome of a post leaves the function as an exception
PostRaises(o) == FALSE

\* lines 280-282: nothing configured, the function returns at once
NotifyNoTargets(r, d) ==
    /\ npc = "idle"
    /\ Targets(webhooks) = <<>>
    /\ nmsg' = NoMessage
    /\ attempts' = [u \in WebhookSlots |-> <<>>]
    /\ nret' = "returned"
    /\ UNCHANGED <<mode, now, ticks, cvars, bvars, ka, webhooks, npc, nrest>>

\* lines 284-296: the message is built, the client opened, the first post
\* sent
NotifyStarts(r, d) ==
    /\ npc = "idle"
    /\ Targets(webhooks) # <<>>
    /\ nmsg' = [reason |-> r, detail |-> MessageDetail(d)]
    /\ nrest' = Targets(webhooks)
    /\ attempts' = [u \in WebhookSlots |-> <<>>]
    /\ npc' = "post"
    /\ nret' = "running"
    /\ UNCHANGED <<mode, now, ticks, cvars, bvars, ka, webhooks>>

\* lines 294-298: the post in flight ends; the loop sends the next one,
\* or leaves the `async with`
PostEnds(o) ==
    /\ npc = "post"
    /\ attempts' = [attempts EXCEPT ![Head(nrest)] = Append(@, o)]
    /\ IF PostRaises(o)
       THEN /\ npc' = "idle" /\ nrest' = <<>> /\ nret' = "raised"
       ELSE /\ nrest' = RemainingAfterPost(nrest, o)
            /\ npc' = IF nrest' = <<>> THEN "close" ELSE "post"
            /\ UNCHANGED nret
    /\ UNCHANGED <<mode, now, ticks, cvars, bvars, ka, webhooks, nmsg>>

\* line 293: the client is released and the function returns
NotifyReturns ==
    /\ npc = "close"
    /\ npc' = "idle"
    /\ nret' = "returned"
    /\ UNCHANGED <<mode, now, ticks, cvars, bvars, ka, webhooks, nrest, nmsg, attempts>>

NotifyInit ==
    /\ mode = "refresh"
    /\ now = 0
    /\ ticks = 0
    /\ CredInit
    /\ BrowserInit
    /\ webhooks \in SUBSET WebhookSlots
    /\ NotifyIdle
    /\ ClientIdle

NotifyNext ==
    \/ \E r \in Reasons, d \in DetailLens : NotifyNoTargets(r, d)
    \/ \E r \in Reasons, d \in DetailLens : NotifyStarts(r, d)
    \/ \E o \in PostOutcomes : PostEnds(o)
    \/ NotifyReturns

SpecNotify == NotifyInit /\ [][NotifyNext]_vars

\* C19: a notification call posts to every configured webhook URL exactly
\* once whatever the other posts did, to no URL that is not configured,
\* never raises, and posts nothing when no URL is configured.
C19_EveryTargetOnce ==
    /\ nret # "raised"
    /\ \A u \in WebhookSlots :
         /\ Len(attempts[u]) <= 1
         /\ u \notin webhooks => attempts[u] = <<>>
    /\ (npc = "idle" /\ nret = "returned") =>
          \A u \in webhooks : Len(attempts[u]) = 1
    /\ webhooks = {} => npc = "idle"

\* a call with all three URLs configured has returned; the first post
\* raised, the second got an error status, the third was delivered
C19_DeliveredPastFailures ==
    /\ npc = "idle" /\ nret = "returned"
    /\ webhooks = WebhookSlots
    /\ attempts["generic"] = <<"exception">>
    /\ attempts["slack"] = <<"non2xx">>
    /\ attempts["discord"] = <<"2xx">>

\* ----------------------------------------------------- BrowserSession
\* One BrowserSession object of src/browser_session.py used by several
\* asyncio tasks. A task calls get_hcaptcha_token, generate_via_browser,
\* initialize or close; one action is one run of the task between two
\* awaits. Every await of the browser ends with a result or with an
\* exception. The page crashes, navigates and closes on its own.

\* everything no method of the session touches; the passes of the two
\* wait loops are followed one by one in SpecWaits only
others == <<mode, now, ticks, cvars, nvars, wait, ka>>

\* initialize() and close() are the start-up and shutdown calls of the
\* owner of the session: they are made while no other call is in
\* progress, and no call is made while one of them runs
Quiet == \A t \in Tasks : bpc[t] = "idle"
NoDirectCall == \A t \in Tasks : bop[t] \in LockedOps \cup {"none"}

\* lines 200, 252: `async with self._lock` goes on when the lock is free
LockFree_ignored(l) == TRUE
LockFree(l) == l = 0

\* line 35: `if self._initialized: return`
InitializeIsNoop_never(ini) == FALSE
InitializeIsNoop(ini) == ini

\* line 182
IsStale_ge(t, last) == t - last >= STALE_AFTER
IsStale(t, last) == t - last > STALE_AFTER

\* lines 107, 205: `"/create" not in current_url`
OnCreate_always(u) == TRUE
OnCreate(u) == u = "create"

\* line 231
ValidToken_ge(resp) == resp.kind = "string" /\ resp.len >= MIN_TOKEN_LEN
ValidToken(resp) == resp.kind = "string" /\ resp.len > MIN_TOKEN_LEN

\* lines 231-236: what get_hcaptcha_token returns for a script response
TokenValue(resp) == IF ValidToken(resp) THEN resp ELSE NoResponse

\* the await of the fetch script, line 262: reached after a
\* wait_for_load_state that returned, or after one that raised (lines
\* 256-260)
FetchPcs == {"g_eval", "g_eval_unloaded"}

\* lines 290-295: what generate_via_browser returns for a script result
GenerateValue_raw(res) == res
GenerateValue(res) == IF res.kind = "body" THEN res ELSE NoResponse

\* lines 95-99, 111-115, 207-211: where a page.goto of /create that
\* returns has brought the page: there, or where it was redirected to
Landings == {"create", "home"}

\* how an await of a page method can end: a page that has crashed or
\* closed, or that self._page no longer holds, serves nothing
PageCalls(p) == IF p = "live" THEN {"ok", "fail"} ELSE {"fail"}

\* lines 304, 309, 314, 319: the guard of each teardown step
Held(s) ==
    CASE s = "page" -> page \in {"live", "crashed"}
      [] s = "context" -> context
      [] s = "browser" -> browser
      [] OTHER -> playwright

\* the first teardown step from the i-th on whose guard holds
NextHeld(i) ==
    IF \E j \in i .. Len(CloseOrder) : Held(CloseOrder[j])
    THEN CHOOSE j \in i .. Len(CloseOrder) :
             Held(CloseOrder[j]) /\ \A k \in i .. (j - 1) : ~Held(CloseOrder[k])
    ELSE Len(CloseOrder) + 1

\* lines 303-322: each step has its own try/except, so close() goes on
\* to the step after the j-th however the j-th ended
AfterCloseStep_abort(j, o) == IF o = "fail" THEN Len(CloseOrder) + 1 ELSE j + 1
AfterCloseStep(j, o) == j + 1

\* lines 132-146: how one pass of the loop of _wait_for_page_stable ends
\* after its sleep: settled when no navigation was counted; otherwise
\* another pass, or the deadline has passed
StableOutcomes(nb) == IF nav_count = nb THEN {"settled"} ELSE {"again", "timeout"}

\* the task is suspended at the await p
Awaits(t, op, p, nb, log) ==
    /\ bpc' = [bpc EXCEPT ![t] = p]
    /\ bop' = [bop EXCEPT ![t] = op]
    /\ navb' = [navb EXCEPT ![t] = nb]
    /\ clog' = [clog EXCEPT ![t] = log]
    /\ lock' = IF op \in LockedOps THEN t ELSE lock
    /\ bret' = NoResult

\* the method the task is in ends; `async with` releases the lock
Ends(t, op, out, resp, val) ==
    /\ bpc' = [bpc EXCEPT ![t] = "idle"]
    /\ bop' = [bop EXCEPT ![t] = "none"]
    /\ navb' = [navb EXCEPT ![t] = 0]
    /\ clog' = [clog EXCEPT ![t] = EmptyLog]
    /\ lock' = IF op \in LockedOps THEN 0 ELSE lock
    /\ bret' = [op |-> op, out |-> out, resp |-> resp, val |-> val]

Raises(t, op, kind) == Ends(t, op, kind, NoResponse, NoResponse)

ReturnsNone(t, op) == Ends(t, op, "returned", NoResponse, NoResponse)

\* close() from its i-th step on, lines 303-329: the steps whose guard
\* is false are passed, the first one whose guard holds is awaited; past
\* the last step the handles are cleared. Until then _initialized is ini
\* and the page pg. After close(), _ensure_session
\* calls initialize() (lines 178, 193), which awaits the driver (line 41).
CloseFrom(t, op, i, log, ini, pg) ==
    LET j == NextHeld(i)
        done == [log EXCEPT !.absent = @ \cup {CloseOrder[k] : k \in i .. (j - 1)}]
    IN  IF j <= Len(CloseOrder)
        THEN /\ Awaits(t, op, ClosePc[j], 0, done)
             /\ initialized' = ini
             /\ page' = pg
             /\ UNCHANGED <<playwright, browser, context, url, last_nav_time,
                            nav_count>>
    /\ lastclose' = EmptyLog
    /\ wired' = NoWiring
        ELSE /\ playwright' = FALSE
             /\ browser' = FALSE
             /\ context' = FALSE
             /\ page' = "none"
             /\ url' = "blank"
             /\ initialized' = FALSE
             /\ lastclose' = done
             /\ wired' = NoWiring
             /\ UNCHANGED <<last_nav_time, nav_count>>
             /\ IF op = "close"
                THEN ReturnsNone(t, op)
                ELSE Awaits(t, op, "i_start", 0, EmptyLog)

\* the body of a locked method after _ensure_session has returned:
\* get_hcaptcha_token lines 204-215, generate_via_browser lines 256-262
BodyEntry(t, op) ==
    IF op = "get_hcaptcha_token"
    THEN IF ~OnCreate(url) THEN Awaits(t, op, "h_goto", 0, EmptyLog)
         ELSE Awaits(t, op, "h_hc", 0, EmptyLog)
    ELSE Awaits(t, op, "g_load", 0, EmptyLog)

\* a task calls get_hcaptcha_token (line 200) and waits for the lock
GetHcaptchaToken(t) ==
    /\ bpc[t] = "idle"
    /\ NoDirectCall
    /\ bpc' = [bpc EXCEPT ![t] = "lock"]
    /\ bop' = [bop EXCEPT ![t] = "get_hcaptcha_token"]
    /\ UNCHANGED <<others, session, lock, navb, clog>>
    /\ lastclose' = EmptyLog
    /\ wired' = NoWiring
    /\ bret' = NoResult

\* a task calls generate_via_browser (line 252) and waits for the lock
GenerateViaBrowser(t) ==
    /\ bpc[t] = "idle"
    /\ NoDirectCall
    /\ bpc' = [bpc EXCEPT ![t] = "lock"]
    /\ bop' = [bop EXCEPT ![t] = "generate_via_browser"]
    /\ UNCHANGED <<others, session, lock, navb, clog>>
    /\ lastclose' = EmptyLog
    /\ wired' = NoWiring
    /\ bret' = NoResult

\* the lock is taken and _ensure_session (lines 174-193) runs to its
\* first await, or returns at once
Acquire(t) ==
    /\ bpc[t] = "lock"
    /\ LockFree(lock)
    /\ IF ~initialized
       THEN CloseFrom(t, bop[t], 1, EmptyLog, FALSE, page)
       ELSE IF IsStale(now, last_nav_time)
            THEN /\ Awaits(t, bop[t], "r_reload", 0, EmptyLog)
                 /\ UNCHANGED session /\ lastclose' = EmptyLog /\ wired' = NoWiring
            ELSE /\ BodyEntry(t, bop[t])
                 /\ UNCHANGED session /\ lastclose' = EmptyLog /\ wired' = NoWiring
    /\ UNCHANGED others

\* a task calls initialize() itself, lines 33-41
Initialize(t) ==
    /\ Quiet
    /\ IF InitializeIsNoop(initialized)
       THEN Ends(t, "initialize", "noop", NoResponse, NoResponse)
       ELSE Awaits(t, "initialize", "i_start", 0, EmptyLog)
    /\ UNCHANGED <<others, session>>
    /\ lastclose' = EmptyLog
    /\ wired' = NoWiring

\* a task calls close() itself, line 301
Close(t) ==
    /\ Quiet
    /\ CloseFrom(t, "close", 1, EmptyLog, initialized, page)
    /\ UNCHANGED others

\* the teardown step j of close() that the task awaits ends; a page
\* that page.close() has closed stays in self._page, closed, until line 324
CloseStep(t, j) ==
    /\ bpc[t] = ClosePc[j]
    /\ \E o \in {"ok", "fail"} :
         CloseFrom(t, bop[t], AfterCloseStep(j, o),
                   [clog[t] EXCEPT !.tried = @ \cup {CloseOrder[j]},
                                   !.failed = IF o = "fail" THEN @ \cup {CloseOrder[j]} ELSE @],
                   initialized,
                   IF j = 1 /\ o = "ok" THEN "closed" ELSE page)
    /\ UNCHANGED others

\* lines 303-307
ClosePage(t) == CloseStep(t, 1)
\* lines 308-312
CloseContext(t) == CloseStep(t, 2)
\* lines 313-317
CloseBrowser(t) == CloseStep(t, 3)
\* lines 318-322
StopPlaywright(t) == CloseStep(t, 4)

\* line 41: the driver has started, the browser launch is awaited
InitStart(t) ==
    /\ bpc[t] = "i_start"
    /\ \E o \in {"ok", "fail"} :
         IF o = "ok"
         THEN /\ playwright' = TRUE
              /\ Awaits(t, bop[t], "i_launch", 0, EmptyLog)
         ELSE /\ Raises(t, bop[t], "browser_error")
              /\ UNCHANGED playwright
    /\ UNCHANGED <<others, browser, context, page, url, initialized, last_nav_time,
                   nav_count>>
    /\ lastclose' = EmptyLog
    /\ wired' = NoWiring

\* lines 42-54: the browser is up, the context is awaited
InitLaunch(t) ==
    /\ bpc[t] = "i_launch"
    /\ \E o \in {"ok", "fail"} :
         IF o = "ok"
         THEN /\ browser' = TRUE
              /\ Awaits(t, bop[t], "i_context", 0, EmptyLog)
         ELSE /\ Raises(t, bop[t], "browser_error")
              /\ UNCHANGED browser
    /\ UNCHANGED <<others, playwright, context, page, url, initialized, last_nav_time,
                   nav_count>>
    /\ lastclose' = EmptyLog
    /\ wired' = NoWiring

\* lines 64-66: `if not client_jwt: raise RuntimeError`
HasCredential_always(m) == TRUE
HasCredential(m) == m = "refresh"

\* lines 54-76: the context exists; without SUNO_REFRESH_TOKEN line 66
\* raises, with it the cookies are added
InitContext(t) ==
    /\ bpc[t] = "i_context"
    /\ \E o \in {"ok", "fail"} :
         IF o = "ok"
         THEN /\ context' = TRUE
              /\ IF ~HasCredential(mode)
                 THEN Raises(t, bop[t], "config_error")
                 ELSE Awaits(t, bop[t], "i_cookies", 0, EmptyLog)
         ELSE /\ Raises(t, bop[t], "browser_error")
              /\ UNCHANGED context
    /\ UNCHANGED <<others, playwright, browser, page, url, initialized, last_nav_time,
                   nav_count>>
    /\ lastclose' = EmptyLog
    /\ wired' = NoWiring

\* lines 76-83: the cookies are in, the page is awaited
InitCookies(t) ==
    /\ bpc[t] = "i_cookies"
    /\ \E o \in {"ok", "fail"} :
         IF o = "fail"
         THEN /\ Raises(t, bop[t], "browser_error")
              /\ wired' = NoWiring
         ELSE /\ wired' = [NoWiring EXCEPT !.cookies = CookieDomains]
              /\ Awaits(t, bop[t], "i_newpage", 0, EmptyLog)
    /\ UNCHANGED <<others, playwright, browser, context, page, url, initialized,
                   last_nav_time, nav_count>>
    /\ lastclose' = EmptyLog

\* lines 83-95: the page exists, both handlers are registered, the
\* navigation count reset, the navigation to /create awaited
InitNewPage(t) ==
    /\ bpc[t] = "i_newpage"
    /\ \E o \in {"ok", "fail"} :
         IF o = "ok"
         THEN /\ page' = "live"
              /\ url' = "blank"
              /\ nav_count' = 0
              /\ wired' = [NoWiring EXCEPT !.handlers = PageEvents]
              /\ Awaits(t, bop[t], "i_goto", 0, EmptyLog)
         ELSE /\ Raises(t, bop[t], "browser_error")
              /\ UNCHANGED <<page, url, nav_count>>
              /\ wired' = NoWiring
    /\ UNCHANGED <<others, playwright, browser, context, initialized, last_nav_time>>
    /\ lastclose' = EmptyLog

\* lines 95-102, 132-135: the navigation is done, the first pass of the
\* stability wait sleeps
InitGoto(t) ==
    /\ bpc[t] = "i_goto"
    /\ \E o \in PageCalls(page) :
         IF o = "ok"
         THEN /\ url' \in Landings
              /\ Awaits(t, bop[t], "i_stable", nav_count, EmptyLog)
         ELSE /\ Raises(t, bop[t], "browser_error")
              /\ UNCHANGED url
    /\ UNCHANGED <<others, playwright, browser, context, page, initialized,
                   last_nav_time, nav_count>>
    /\ lastclose' = EmptyLog
    /\ wired' = NoWiring

\* lines 102-119: a pass of the first stability wait ends; when the wait
\* returns the URL is looked at and /create is navigated to again, or
\* the hCaptcha wait begins
InitStable(t) ==
    /\ bpc[t] = "i_stable"
    /\ \E o \in StableOutcomes(navb[t]) :
         IF o = "again" THEN Awaits(t, bop[t], "i_stable", nav_count, EmptyLog)
         ELSE IF ~OnCreate(url) THEN Awaits(t, bop[t], "i_goto2", 0, EmptyLog)
         ELSE Awaits(t, bop[t], "i_hc", 0, EmptyLog)
    /\ UNCHANGED <<others, session>>
    /\ lastclose' = EmptyLog
    /\ wired' = NoWiring

\* lines 111-116: the second navigation is done
InitGoto2(t) ==
    /\ bpc[t] = "i_goto2"
    /\ \E o \in PageCalls(page) :
         IF o = "ok"
         THEN /\ url' \in Landings
              /\ Awaits(t, bop[t], "i_stable2", nav_count, EmptyLog)
         ELSE /\ Raises(t, bop[t], "browser_error")
              /\ UNCHANGED url
    /\ UNCHANGED <<others, playwright, browser, context, page, initialized,
                   last_nav_time, nav_count>>
    /\ lastclose' = EmptyLog
    /\ wired' = NoWiring

\* lines 116-119: a pass of the second stability wait ends
InitStable2(t) ==
    /\ bpc[t] = "i_stable2"
    /\ \E o \in StableOutcomes(navb[t]) :
         IF o = "again" THEN Awaits(t, bop[t], "i_stable2", nav_count, EmptyLog)
         ELSE Awaits(t, bop[t], "i_hc", 0, EmptyLog)
    /\ UNCHANGED <<others, session>>
    /\ lastclose' = EmptyLog
    /\ wired' = NoWiring

\* lines 119-124: _wait_for_hcaptcha has returned (hCaptcha found, or its
\* deadline passed); initialize() marks the session and returns, to its
\* caller or into the body of the locked method
InitHc(t) ==
    /\ bpc[t] = "i_hc"
    /\ initialized' = TRUE
    /\ last_nav_time' = now
    /\ IF bop[t] = "initialize" THEN ReturnsNone(t, bop[t])
       ELSE BodyEntry(t, bop[t])
    /\ UNCHANGED <<others, playwright, browser, context, page, url, nav_count>>
    /\ lastclose' = EmptyLog
    /\ wired' = NoWiring

\* lines 185-193: the reload is done and the stability wait begins, or
\* it raised and the session is closed and initialized again
Reload(t) ==
    /\ bpc[t] = "r_reload"
    /\ \E o \in PageCalls(page) :
         IF o = "ok"
         THEN /\ Awaits(t, bop[t], "r_stable", nav_count, EmptyLog)
              /\ UNCHANGED session /\ lastclose' = EmptyLog /\ wired' = NoWiring
         ELSE CloseFrom(t, bop[t], 1, EmptyLog, FALSE, page)
    /\ UNCHANGED others

\* lines 186-187: a pass of the stability wait of the reload ends
ReloadStable(t) ==
    /\ bpc[t] = "r_stable"
    /\ \E o \in StableOutcomes(navb[t]) :
         IF o = "again"
         THEN /\ Awaits(t, bop[t], "r_stable", nav_count, EmptyLog)
              /\ UNCHANGED session /\ lastclose' = EmptyLog /\ wired' = NoWiring
         ELSE /\ Awaits(t, bop[t], "r_hc", 0, EmptyLog)
              /\ UNCHANGED session /\ lastclose' = EmptyLog /\ wired' = NoWiring
    /\ UNCHANGED others

\* lines 187-188: the hCaptcha wait of the reload has returned
ReloadHc(t) ==
    /\ bpc[t] = "r_hc"
    /\ last_nav_time' = now
    /\ BodyEntry(t, bop[t])
    /\ UNCHANGED <<others, playwright, browser, context, page, url, initialized,
                   nav_count>>
    /\ lastclose' = EmptyLog
    /\ wired' = NoWiring

\* lines 207-212: the navigation back to /create is done
DriftGoto(t) ==
    /\ bpc[t] = "h_goto"
    /\ \E o \in PageCalls(page) :
         IF o = "ok"
         THEN /\ url' \in Landings
              /\ Awaits(t, bop[t], "h_stable", nav_count, EmptyLog)
         ELSE /\ Raises(t, bop[t], "browser_error")
              /\ UNCHANGED url
    /\ UNCHANGED <<others, playwright, browser, context, page, initialized,
                   last_nav_time, nav_count>>
    /\ lastclose' = EmptyLog
    /\ wired' = NoWiring

\* lines 212-215: a pass of the stability wait after the drift ends
DriftStable(t) ==
    /\ bpc[t] = "h_stable"
    /\ \E o \in StableOutcomes(navb[t]) :
         IF o = "again" THEN Awaits(t, bop[t], "h_stable", nav_count, EmptyLog)
         ELSE Awaits(t, bop[t], "h_hc", 0, EmptyLog)
    /\ UNCHANGED <<others, session>>
    /\ lastclose' = EmptyLog
    /\ wired' = NoWiring

\* lines 215-218: _wait_for_hcaptcha(15) has returned and the hCaptcha
\* script is started
TokenScriptStarts(t) ==
    /\ bpc[t] = "h_hc"
    /\ Awaits(t, bop[t], "h_eval", 0, EmptyLog)
    /\ UNCHANGED <<others, session>>
    /\ lastclose' = EmptyLog
    /\ wired' = NoWiring

\* lines 218-240: the script has ended
TokenScriptEnds(t) ==
    /\ bpc[t] = "h_eval"
    /\ \E r \in (IF page = "live" THEN Responses ELSE {}) \cup {ScriptException} :
         Ends(t, bop[t], "returned", r, TokenValue(r))
    /\ UNCHANGED <<others, session>>
    /\ lastclose' = EmptyLog
    /\ wired' = NoWiring

\* lines 256-262: wait_for_load_state has ended, either way, and the
\* fetch script is started
FetchScriptStarts(t) ==
    /\ bpc[t] = "g_load"
    /\ \E o \in PageCalls(page) :
         Awaits(t, bop[t], IF o = "ok" THEN "g_eval" ELSE "g_eval_unloaded", 0, EmptyLog)
    /\ UNCHANGED <<others, session>>
    /\ lastclose' = EmptyLog
    /\ wired' = NoWiring

\* lines 262-299: the script has ended
FetchScriptEnds(t) ==
    /\ bpc[t] \in FetchPcs
    /\ \E r \in (IF page = "live" THEN FetchResults ELSE {}) \cup {ScriptException} :
         Ends(t, bop[t], "returned", r, GenerateValue(r))
    /\ UNCHANGED <<others, session>>
    /\ lastclose' = EmptyLog
    /\ wired' = NoWiring

\* lines 170-172: the page crashes and _on_page_crash runs
Crash ==
    /\ page = "live"
    /\ page' = "crashed"
    /\ initialized' = FALSE
    /\ UNCHANGED <<others, playwright, browser, context, url, last_nav_time, nav_count,
                   lock, bpc, bop, navb, clog>>
    /\ lastclose' = EmptyLog
    /\ wired' = NoWiring
    /\ bret' = NoResult

\* lines 164-168: the main frame navigates and _on_frame_navigated runs
FrameNavigated ==
    /\ page = "live"
    /\ nav_count < MaxNav
    /\ nav_count' = nav_count + 1
    /\ \E u \in {"create", "home"} : url' = u
    /\ UNCHANGED <<others, playwright, browser, context, page, initialized,
                   last_nav_time, lock, bpc, bop, navb, clog>>
    /\ lastclose' = EmptyLog
    /\ wired' = NoWiring
    /\ bret' = NoResult

\* the page is closed from outside, so that is_closed() (line 304) holds
PageCloses ==
    /\ page \in {"live", "crashed"}
    /\ page' = "closed"
    /\ UNCHANGED <<others, playwright, browser, context, url, initialized,
                   last_nav_time, nav_count, lock, bpc, bop, navb, clog>>
    /\ lastclose' = EmptyLog
    /\ wired' = NoWiring
    /\ bret' = NoResult

\* time.monotonic() advances
BrowserTick ==
    /\ ticks < MaxTicks
    /\ ticks' = ticks + 1
    /\ \E d \in BrowserTickSteps : now' = now + d
    /\ UNCHANGED <<mode, cvars, nvars, wait, ka, session, lock, bpc, bop, navb, clog>>
    /\ lastclose' = EmptyLog
    /\ wired' = NoWiring
    /\ bret' = NoResult

BrowserSpecInit ==
    /\ mode \in {"refresh", "legacy"}
    /\ now = 0
    /\ ticks = 0
    /\ CredInit
    /\ BrowserInit
    /\ webhooks = {}
    /\ NotifyIdle
    /\ ClientIdle

BrowserNext ==
    \/ \E t \in Tasks :
         \/ GetHcaptchaToken(t)
         \/ GenerateViaBrowser(t)
         \/ Acquire(t)
         \/ Initialize(t)
         \/ Close(t)
         \/ ClosePage(t)
         \/ CloseContext(t)
         \/ CloseBrowser(t)
         \/ StopPlaywright(t)
         \/ InitStart(t)
         \/ InitLaunch(t)
         \/ InitContext(t)
         \/ InitCookies(t)
         \/ InitNewPage(t)
         \/ InitGoto(t)
         \/ InitStable(t)
         \/ InitGoto2(t)
         \/ InitStable2(t)
         \/ InitHc(t)
         \/ Reload(t)
         \/ ReloadStable(t)
         \/ ReloadHc(t)
         \/ DriftGoto(t)
         \/ DriftStable(t)
         \/ TokenScriptStarts(t)
         \/ TokenScriptEnds(t)
         \/ FetchScriptStarts(t)
         \/ FetchScriptEnds(t)
    \/ Crash
    \/ FrameNavigated
    \/ PageCloses
    \/ BrowserTick

SpecBrowser == BrowserSpecInit /\ [][BrowserNext]_vars

\* ------------------------- _wait_for_page_stable, _wait_for_hcaptcha
\* The two wait loops pass by pass, with the clock: one caller of the
\* session is inside one of them, `wait` says which loop and where, `now`
\* is time.monotonic(). A sleep lasts as long as asked or up to Lateness
\* longer, a page.evaluate call up to Lateness.

\* line 136: `if self._nav_count == nav_before`
Settled_never(count, before) == FALSE
Settled(count, before) == count = before

\* lines 133, 150: the negation of `while time.monotonic() < deadline`
Expired(t, deadline) == ~(t < deadline)

\* lines 151-161: where a poll leaves the loop. `return` on a true
\* result; a false one goes on to the sleep, and so does an exception,
\* which `except Exception` catches
AfterPoll_uncaught(res) ==
    CASE res = "true" -> "returned" [] res = "exception" -> "raised" [] OTHER -> "sleep"
AfterPoll(res) == IF res = "true" THEN "returned" ELSE "sleep"

\* the parts of the state the wait loops leave alone
wrest == <<mode, ticks, cvars, nvars, ka, playwright, browser, context, page, initialized, wired,
           last_nav_time, lock, bpc, bop, navb, clog, lastclose, bret>>

\* the function returns (`return`, or the end of its body) or raises
WaitEnds(out) == wait' = [wait EXCEPT !.at = "done", !.out = out]

\* _wait_for_page_stable lines 135-146: the sleep of one pass is over.
\* The count is compared; when it differs the loop condition is
\* evaluated and the next pass reads the count and sleeps
StableWakes ==
    /\ wait.fn = "stable" /\ wait.at = "sleep"
    /\ \E d \in SETTLE_TIME .. SETTLE_TIME + Lateness :
         /\ now + d <= MaxClock
         /\ now' = now + d
         /\ IF Settled(nav_count, wait.before) THEN WaitEnds("returned")
            ELSE IF Expired(now + d, wait.deadline) THEN WaitEnds("returned")
            ELSE wait' = [wait EXCEPT !.before = nav_count]
    /\ UNCHANGED <<wrest, nav_count, url>>

\* _on_frame_navigated lines 164-168, for a main-frame navigation that
\* happens while _wait_for_page_stable sleeps
NavigatedWhileWaiting ==
    /\ wait.fn = "stable" /\ wait.at = "sleep"
    /\ page = "live"
    /\ nav_count - wait.before < MaxNavPerWindow
    /\ nav_count' = nav_count + 1
    /\ \E u \in {"create", "home"} : url' = u
    /\ UNCHANGED <<wrest, now, wait>>

\* _wait_for_hcaptcha lines 151-161: the page.evaluate of one poll ends,
\* with a value or with an exception
HcaptchaPolls ==
    /\ wait.fn = "hcaptcha" /\ wait.at = "eval"
    /\ \E e \in 0 .. Lateness, res \in PollResults :
         /\ now + e <= MaxClock
         /\ now' = now + e
         /\ IF AfterPoll(res) = "sleep"
            THEN wait' = [wait EXCEPT !.at = "sleep", !.last = res]
            ELSE wait' = [wait EXCEPT !.at = "done", !.last = res, !.out = AfterPoll(res)]
    /\ UNCHANGED <<wrest, nav_count, url>>

\* lines 150, 161-162: the sleep between two polls is over; the loop
\* condition is evaluated and the next poll starts, or the function ends
\* with its warning
HcaptchaWakes ==
    /\ wait.fn = "hcaptcha" /\ wait.at = "sleep"
    /\ \E d \in POLL_SLEEP .. POLL_SLEEP + Lateness :
         /\ now + d <= MaxClock
         /\ now' = now + d
         /\ IF Expired(now + d, wait.deadline) THEN WaitEnds("returned")
            ELSE wait' = [wait EXCEPT !.at = "eval"]
    /\ UNCHANGED <<wrest, nav_count, url>>

\* the calls of the two functions: initialize() lines 102, 119, and
\* get_hcaptcha_token line 215. Each starts at its first await: lines
\* 132-135 for _wait_for_page_stable, lines 149-152 for _wait_for_hcaptcha
WaitCalls ==
    {[at |-> "i_stable", fn |-> "stable", timeout |-> MAX_WAIT],
     [at |-> "i_hc", fn |-> "hcaptcha", timeout |-> HCAPTCHA_TIMEOUT],
     [at |-> "h_hc", fn |-> "hcaptcha", timeout |-> TOKEN_HCAPTCHA_TIMEOUT]}

\* the first caller is inside one of the calls, on a live page
WaitsInit ==
    /\ mode \in {"refresh", "legacy"}
    /\ now = 0
    /\ ticks = 0
    /\ CredInit
    /\ webhooks = {}
    /\ NotifyIdle
    /\ ClientIdle
    /\ playwright = TRUE /\ browser = TRUE /\ context = TRUE
    /\ page = "live"
    /\ url = "create"
    /\ last_nav_time = 0
    /\ nav_count = 0
    /\ wired = NoWiring
    /\ navb = [t \in Tasks |-> 0]
    /\ clog = [t \in Tasks |-> EmptyLog]
    /\ lastclose = EmptyLog
    /\ bret = NoResult
    /\ \E c \in WaitCalls :
         /\ bpc = [t \in Tasks |-> IF t = 1 THEN c.at ELSE "idle"]
         /\ bop = [t \in Tasks |-> IF t # 1 THEN "none"
                                   ELSE IF c.at = "h_hc" THEN "get_hcaptcha_token"
                                   ELSE "initialize"]
         /\ initialized = (c.at = "h_hc")
         /\ lock = IF c.at = "h_hc" THEN 1 ELSE 0
         /\ wait = [fn |-> c.fn,
                    at |-> IF c.fn = "stable" THEN "sleep" ELSE "eval",
                    deadline |-> now + c.timeout,
                    before |-> nav_count,
                    last |-> "none",
                    out |-> "none"]

WaitsNext ==
    \/ StableWakes
    \/ NavigatedWhileWaiting
    \/ HcaptchaPolls
    \/ HcaptchaWakes

\* asyncio ends every sleep, and every page.evaluate call is taken to
\* end, with a value or with an exception
SpecWaits ==
    /\ WaitsInit
    /\ [][WaitsNext]_vars
    /\ WF_vars(StableWakes)
    /\ WF_vars(HcaptchaPolls)
    /\ WF_vars(HcaptchaWakes)

\* --------------------------------------------------- SunoV2Client
\* One SunoV2Client of src/suno_client.py after its constructor (lines
\* 22-47) has refreshed the token once and started the keep-alive
\* thread. The thread and the caller of close() are threads of the
\* operating system: one action is one statement of one of them.
\* ka.token is the attempt whose jwt self.access_token holds (0: the
\* constructor's), ka.n counts the attempts of the thread, ka.after those
\* started while the stop event was set, ka.last is how the last one ended.

\* line 116: `while not self._stop_event.is_set()`
LoopGoesOn_always(stop) == TRUE
LoopGoesOn(stop) == ~stop

\* lines 110-113: self.access_token after attempt n has ended with o
TokenAfterRefresh(o, token, n) == IF o = "jwt" THEN n ELSE token

\* what the client leaves alone
krest == <<mode, now, ticks, cvars, bvars, nvars>>

\* line 116: the loop condition is evaluated
KeepAliveChecks ==
    /\ ka.at = "check"
    /\ IF LoopGoesOn(ka.stop)
       THEN /\ ka.n < MaxRefreshes
            /\ ka' = [ka EXCEPT !.at = "call"]
       ELSE ka' = [ka EXCEPT !.at = "done"]
    /\ UNCHANGED krest

\* lines 118, 100: _refresh_access_token is called and posts its request
KeepAliveSends ==
    /\ ka.at = "call"
    /\ ka' = [ka EXCEPT !.at = "request", !.n = @ + 1,
                        !.after = IF ka.stop THEN @ + 1 ELSE @]
    /\ UNCHANGED krest

\* lines 100-113, 119-121: the request ends; a jwt is stored, an
\* exception is caught and printed; either way the thread goes on to
\* wait on the stop event
KeepAliveRefreshEnds ==
    /\ ka.at = "request"
    /\ \E o \in RefreshOutcomes :
         ka' = [ka EXCEPT !.at = "wait", !.last = o,
                          !.token = TokenAfterRefresh(o, ka.token, ka.n)]
    /\ UNCHANGED krest

\* line 121: `self._stop_event.wait(40)` returns, after 40 s or because
\* the event is set
KeepAliveWakes ==
    /\ ka.at = "wait"
    /\ ka' = [ka EXCEPT !.at = "check"]
    /\ UNCHANGED krest

\* close(), lines 174-176, called from another thread
ClientClose ==
    /\ ka.at # "none"
    /\ ~ka.stop
    /\ ka' = [ka EXCEPT !.stop = TRUE]
    /\ UNCHANGED krest

KeepAliveInit ==
    /\ mode \in Modes
    /\ now = 0
    /\ ticks = 0
    /\ CredInit
    /\ BrowserInit
    /\ webhooks = {}
    /\ npc = "idle"
    /\ nrest = <<>>
    /\ nmsg = NoMessage
    /\ attempts = [u \in WebhookSlots |-> <<>>]
    /\ nret = "none"
    /\ ka = [at |-> "check", stop |-> FALSE, token |-> 0, n |-> 0, after |-> 0,
             last |-> "jwt"]

KeepAliveNext ==
    \/ KeepAliveChecks
    \/ KeepAliveSends
    \/ KeepAliveRefreshEnds
    \/ KeepAliveWakes
    \/ ClientClose

\* the thread is scheduled again and again, and every request ends (it
\* has a timeout of 20 s, line 106)
SpecKeepAlive ==
    /\ KeepAliveInit
    /\ [][KeepAliveNext]_vars
    /\ WF_vars(KeepAliveChecks)
    /\ WF_vars(KeepAliveSends)
    /\ WF_vars(KeepAliveRefreshEnds)
    /\ WF_vars(KeepAliveWakes)

\* the awaits of close()
ClosePcs == {ClosePc[j] : j \in 1 .. Len(ClosePc)}
\* the awaits of the two in-page scripts
ScriptPcs == {"h_eval"} \cup FetchPcs
\* the tasks that hold the lock: inside a locked method, past the wait
\* for the lock
Driving == {t \in Tasks : bop[t] \in LockedOps /\ bpc[t] \notin {"idle", "lock"}}
\* no handle is held and the session is not marked initialized
Closed == ~playwright /\ ~browser /\ ~context /\ page = "none" /\ ~initialized

\* C12: the hCaptcha script and the fetch script are started only while
\* the session is marked initialized.
C12_ScriptOnlyWhenReady ==
    [][\A t \in Tasks :
         (bpc[t] \notin ScriptPcs /\ bpc'[t] \in ScriptPcs) => initialized']_vars

\* C13: when a caller takes the lock while the page the session holds has
\* crashed, _ensure_session tears the session down (close() first).
C13_CrashForcesTeardown ==
    [][\A t \in Tasks :
         (bpc[t] = "lock" /\ bpc'[t] # "lock" /\ page = "crashed") =>
            bpc'[t] = "c_page"]_vars

\* C14: when initialize() gets past its last wait the session is marked
\* initialized and _last_nav_time is the time of that step; initialize()
\* called on an initialized session launches nothing and changes nothing.
C14_InitializeMarksReady ==
    [][/\ \A t \in Tasks :
            (bpc[t] = "i_hc" /\ bpc'[t] # "i_hc") =>
                initialized' /\ last_nav_time' = now
       /\ \A t \in Tasks :
            (Quiet /\ initialized /\ bpc'[t] # "idle" /\ bop'[t] = "initialize") => FALSE
       /\ (bret'.op = "initialize" /\ bret'.out = "noop") =>
            /\ initialized
            /\ UNCHANGED <<session, lock, bpc, bop>>]_vars

\* initialize() has just returned at once on a session that an earlier
\* initialize() had marked, later than time 0, with no navigation counted
C14_NoopOnReady ==
    /\ bret.op = "initialize" /\ bret.out = "noop"
    /\ initialized /\ page = "live" /\ nav_count = 0
    /\ last_nav_time > 0 /\ last_nav_time = now

\* C15: get_hcaptcha_token returns None, and does not raise, for a script
\* response that is null, not a string, or a string of at most 20
\* characters, and returns the response for a string of 21 or more.
C15_TokenLength ==
    (bret.op = "get_hcaptcha_token" /\ bret.resp \in Responses) =>
        /\ bret.out = "returned"
        /\ IF bret.resp.kind = "string" /\ bret.resp.len >= 21
           THEN bret.val = bret.resp
           ELSE bret.val = NoResponse

\* get_hcaptcha_token has just returned a 21-character response
C15_ShortestToken ==
    /\ bret.op = "get_hcaptcha_token" /\ bret.out = "returned"
    /\ bret.resp = [kind |-> "string", len |-> 21]
    /\ bret.val = bret.resp

\* C16: at most one caller is inside the locked part of
\* get_hcaptcha_token / generate_via_browser (with the _ensure_session,
\* close() and initialize() it runs).
C16_OneDriver == Cardinality(Driving) <= 1

\* one caller is inside the close() of its _ensure_session after a crash
\* while another waits for the lock
C16_TeardownWhileWaiting ==
    \E t, u \in Tasks :
        /\ bop[t] \in LockedOps /\ bpc[t] \in ClosePcs
        /\ page = "crashed"
        /\ bpc[u] = "lock"

\* C17: neither locked method ends with an exception of the browser
\* (launch, navigation, reload, drift navigation).
C17_NoBrowserErrorRaised ==
    ~(bret.op \in LockedOps /\ bret.out = "browser_error")

\* C18: when close() has run, every teardown step was either attempted or
\* had no handle to tear down, whichever steps failed; close() has not
\* raised; no handle is held and the session is not marked initialized.
\* close() on such a session changes nothing.
C18_CloseClearsAll ==
    [][/\ lastclose' # EmptyLog =>
            /\ lastclose'.tried \cup lastclose'.absent = {CloseOrder[j] : j \in 1 .. 4}
            /\ lastclose'.failed \subseteq lastclose'.tried
            /\ bret'.out \in {"none", "returned"}
            /\ ~playwright' /\ ~browser' /\ ~context' /\ page' = "none" /\ ~initialized'
       /\ (Closed /\ bret'.op = "close") =>
            /\ bret'.out = "returned"
            /\ UNCHANGED session]_vars

\* close() called by the owner has just returned; all four steps were
\* attempted, the page and the browser steps failed
C18_ClosedPastFailures ==
    /\ bret.op = "close" /\ bret.out = "returned"
    /\ lastclose.tried = {"page", "context", "browser", "playwright"}
    /\ lastclose.failed = {"page", "browser"}
    /\ Closed

\* C21: every failed token exchange, whatever raised, adds exactly 1 to
\* the failure count, records the error, and leaves the state degraded
\* when the new count is below MAX_REFRESH_FAILURES.
C21_FailureCounted ==
    [][\A t \in Tasks :
         (pc[t] = "fail_close" /\ pc'[t] # "fail_close") =>
            /\ consecutive_refresh_failures' = consecutive_refresh_failures + 1
            /\ last_auth_error' = exc[t] /\ exc[t] \in ExchangeErrors
            /\ consecutive_refresh_failures' < 3 => auth_state' = "degraded"]_vars

\* the second failure in a row, of a 2xx response without a token, has
\* just been handled
C21_SecondFailure ==
    /\ ret = "error_refresh_failed"
    /\ consecutive_refresh_failures = 2
    /\ last_auth_error = "nojwt"
    /\ auth_state = "degraded"
    /\ notified = NoReason

\* C22: once reauth_required_since is set, no step that leaves the state
\* reauth_required changes it.
C22_SinceKept ==
    [][(auth_state = "reauth_required" /\ reauth_required_since # None
            /\ auth_state' = "reauth_required") =>
          reauth_required_since' = reauth_required_since]_vars

\* a 401 has just been handled in reauth_required, later than the time
\* reauth_required_since holds
C22_Later401 ==
    /\ notified = "suno_billing_401"
    /\ auth_state = "reauth_required"
    /\ reauth_required_since # None /\ reauth_required_since < now

\* C23: a cached session id is never changed or cleared.
C23_SessionIdSticky ==
    [][session_id # "" => session_id' = session_id]_vars

\* C24: a response that yields no session id ends the call with the
\* session-resolution error, no token exchange is started, and state,
\* failure count, last error and reauth_required_since stay as they
\* were, without a notification.
C24_ResolutionErrorNotCounted ==
    [][\A t \in Tasks :
         /\ (pc[t] = "resolve" /\ pc'[t] = "resolve_close") => session_id' # ""
         /\ (pc[t] = "resolve" /\ pc'[t] = "idle" /\ ret' = "error_session_resolution") =>
              /\ UNCHANGED <<auth_state, consecutive_refresh_failures, last_auth_error,
                             reauth_required_since>>
              /\ notified' = NoReason]_vars

\* a call has just ended with the session-resolution error while the
\* state was degraded after an earlier failed exchange
C24_ResolutionErrorWhileDegraded ==
    /\ ret = "error_session_resolution"
    /\ session_id = ""
    /\ auth_state = "degraded" /\ consecutive_refresh_failures = 1
    /\ last_auth_error = "http"

\* C25: a session-resolution request that fails at transport level adds
\* 1 to the failure count.
C25_ResolveFailureCounted ==
    [][\A t \in Tasks :
         (pc[t] = "resolve" /\ pc'[t] = "idle" /\ ret' = "error_resolve_http") =>
            consecutive_refresh_failures' = consecutive_refresh_failures + 1]_vars

\* C26: inside one _ensure_token call no request is sent twice: after
\* the token exchange has been posted the task sends neither request
\* again, and after the session request has been answered it is not
\* sent again.
C26_NoRetry ==
    [][\A t \in Tasks :
         /\ pc[t] \in {"exchange", "exchange_close", "fail_close"} =>
               pc'[t] \notin {"resolve", "resolve_close"}
         /\ pc[t] \in {"exchange_close", "fail_close"} => pc'[t] # "exchange"
         /\ pc[t] = "resolve_close" => pc'[t] # "resolve"]_vars

\* the only call has just ended in a failed exchange, its first, after
\* it had resolved the session
C26_FailedOnce ==
    /\ ret = "error_refresh_failed"
    /\ \A t \in Tasks : pc[t] = "idle"
    /\ session_id # "" /\ consecutive_refresh_failures = 1
    /\ last_refresh_at = None

\* the first awaits of the bodies of the two locked methods
BodyPcs == {"h_goto", "h_hc", "g_load"}

\* C28: _ensure_session on an initialized session reloads the page when
\* the last settle is more than 1800 s old, then runs the stability wait
\* and the hCaptcha wait and sets _last_nav_time; a reload that raises is
\* followed by close() and then initialize(); when the last settle is not
\* that old the session is left as it is and the body of the method
\* begins.
C28_ReloadWhenStale ==
    [][\A t \in Tasks :
         /\ (bpc[t] = "lock" /\ bpc'[t] # "lock" /\ initialized) =>
               IF now - last_nav_time > 1800
               THEN bpc'[t] = "r_reload" /\ UNCHANGED session
               ELSE bpc'[t] \in BodyPcs /\ UNCHANGED session
         /\ (bpc[t] = "r_reload" /\ bpc'[t] # "r_reload") =>
               \/ bpc'[t] = "r_stable" /\ UNCHANGED session
               \/ bpc'[t] \in ClosePcs \cup {"i_start"} /\ ~initialized'
         /\ (bpc[t] = "r_stable" /\ bpc'[t] # "r_stable") =>
               bpc'[t] = "r_hc" /\ UNCHANGED session
         /\ (bpc[t] = "r_hc" /\ bpc'[t] # "r_hc") =>
               bpc'[t] \in BodyPcs /\ last_nav_time' = now
         /\ (bpc[t] \in ClosePcs /\ bpc'[t] \notin ClosePcs /\ bop[t] \in LockedOps) =>
               bpc'[t] = "i_start" /\ Closed']_vars

\* a stale session has been reloaded and its stability wait has
\* returned; the hCaptcha wait that precedes the update of
\* _last_nav_time is running
C28_Reloaded ==
    \E t \in Tasks :
        /\ bpc[t] = "r_hc"
        /\ initialized /\ page = "live"
        /\ now - last_nav_time > 1800

\* C27: a 401 answer to the status request of _poll_generation forces
\* the state reauth_required and calls the notification.
C27_Poll401ForcesReauth ==
    [][\A t \in Tasks :
         (pc[t] = "poll" /\ pc'[t] = "idle" /\ ret' = "error_poll_401") =>
            auth_state' = "reauth_required" /\ notified' # NoReason]_vars

\* C29: _wait_for_page_stable always terminates and never raises: it
\* returns at the end of the first settle window during which no
\* navigation was counted, and, when every window counts one, at the end
\* of the first window that ends at or after the deadline.
C29_StableWaitReturns ==
    /\ [][(wait.fn = "stable" /\ wait.at = "sleep" /\ now' # now) =>
             /\ nav_count = wait.before => wait'.at = "done"
             /\ now' >= wait.deadline => wait'.at = "done"
             /\ wait'.out \in {"none", "returned"}
             /\ wait'.at = "done" <=> wait'.out = "returned"]_vars
    /\ (wait.fn = "stable") ~> (wait.at = "done" /\ wait.out = "returned")

\* _wait_for_page_stable has returned after its deadline although a
\* navigation was counted in its last window
C29_ReturnedUnsettled ==
    /\ wait.fn = "stable" /\ wait.at = "done" /\ wait.out = "returned"
    /\ nav_count # wait.before
    /\ now >= wait.deadline

C31_NoResultOnAnyFailure ==
    [][\A t \in Tasks :
         (bpc[t] \in FetchPcs /\ bpc'[t] = "idle") =>
            /\ bret'.out = "returned"
            /\ bret'.resp.kind = "body" => bret'.val = bret'.resp
            /\ (\/ bret'.resp.kind \in {"exception", "error"}
                \/ bpc[t] = "g_eval_unloaded") => bret'.val = NoResponse]_vars

\* C31 as amended: generate_via_browser never raises; whether or not
\* wait_for_load_state had failed, it returns the payload of the script
\* when that is a non-empty object without the error flag, and None for
\* every other payload and when the script raised.
C31_BodyOrNone ==
    [][\A t \in Tasks :
         (bpc[t] \in FetchPcs /\ bpc'[t] = "idle") =>
            /\ bret'.op = "generate_via_browser"
            /\ bret'.out = "returned"
            /\ bret'.val = IF bret'.resp.kind = "body" THEN bret'.resp ELSE NoResponse]_vars

\* generate_via_browser has returned None for a payload with the error
\* flag
C31_ErrorPayloadGivesNone ==
    /\ bret.op = "generate_via_browser" /\ bret.out = "returned"
    /\ bret.resp.kind = "error"
    /\ bret.val = NoResponse

\* the awaits of initialize() from its first page.goto on
NavigatedPcs == {"i_goto", "i_stable", "i_goto2", "i_stable2", "i_hc"}

\* C32: initialize() issues its first page.goto in the step that has
\* registered the crash and framenavigated handlers on the new page,
\* which has not navigated yet; it creates the page only after the step
\* in which add_cookies has returned with the __client cookie added for
\* both domains. Without SUNO_REFRESH_TOKEN initialize() raises at the
\* latest once the context exists: no cookie is added, no page is
\* created, no navigation is issued and the session is never marked
\* initialized.
C32_WiredBeforeNavigation ==
    [][\A t \in Tasks :
         /\ (bpc[t] # "i_goto" /\ bpc'[t] = "i_goto") =>
               /\ bpc[t] = "i_newpage"
               /\ wired'.handlers = {"crash", "framenavigated"}
               /\ page' = "live" /\ url' = "blank"
         /\ (bpc[t] # "i_newpage" /\ bpc'[t] = "i_newpage") =>
               /\ bpc[t] = "i_cookies"
               /\ wired'.cookies = {".suno.com", ".clerk.suno.com"}
         /\ (bpc[t] = "i_context" /\ bpc'[t] # "i_context" /\ mode # "refresh") =>
               /\ bpc'[t] = "idle" /\ bret'.out \in {"config_error", "browser_error"}
               /\ page' = "none" /\ ~initialized'
         /\ mode # "refresh" =>
               /\ bpc'[t] \notin NavigatedPcs \cup {"i_cookies", "i_newpage"}
               /\ wired' = NoWiring
               /\ ~initialized']_vars

\* initialize() has issued its first navigation, having just registered
\* the handlers
C32_FirstNavigation ==
    \E t \in Tasks :
        /\ bpc[t] = "i_goto" /\ url = "blank" /\ page = "live"
        /\ wired.handlers = PageEvents

\* C33: a run of initialize() issues page.goto once after the page is
\* created and a second time exactly when the URL at the end of the
\* first stability wait is not /create; after the second stability wait,
\* and after the hCaptcha wait, it goes on whatever the URL is, to the
\* hCaptcha wait and to the initialized session.
C33_AtMostTwoNavigations ==
    [][\A t \in Tasks :
         /\ (bpc[t] # "i_goto" /\ bpc'[t] = "i_goto") => bpc[t] = "i_newpage"
         /\ (bpc[t] # "i_goto2" /\ bpc'[t] = "i_goto2") => bpc[t] = "i_stable"
         /\ (bpc[t] = "i_stable" /\ bpc'[t] # "i_stable") =>
               bpc'[t] = IF url = "create" THEN "i_hc" ELSE "i_goto2"
         /\ (bpc[t] = "i_goto2" /\ bpc'[t] # "i_goto2") =>
               bpc'[t] \in {"i_stable2", "idle"}
         /\ (bpc[t] = "i_stable2" /\ bpc'[t] # "i_stable2") => bpc'[t] = "i_hc"
         /\ (bpc[t] = "i_hc" /\ bpc'[t] # "i_hc") =>
               initialized' /\ bpc'[t] \in BodyPcs \cup {"idle"}]_vars

\* the second stability wait of initialize() runs while the page is
\* elsewhere than /create
C33_RenavigatedAndElsewhere ==
    \E t \in Tasks : bpc[t] = "i_stable2" /\ url # "create"

\* C34: whenever the state is ok the failure count is 0 and the last
\* error is empty; whenever it is degraded the count is at least 1 and
\* below MAX_REFRESH_FAILURES.
C34_StateMatchesCount ==
    /\ auth_state = "ok" =>
          consecutive_refresh_failures = 0 /\ last_auth_error = ""
    /\ auth_state = "degraded" =>
          /\ 1 <= consecutive_refresh_failures
          /\ consecutive_refresh_failures < MAX_REFRESH_FAILURES

\* the state is degraded one failure short of the threshold while another
\* refresh is still in flight
C34_DegradedBelowThreshold ==
    /\ auth_state = "degraded"
    /\ consecutive_refresh_failures = MAX_REFRESH_FAILURES - 1
    /\ last_auth_error # ""
    /\ \E t \in Tasks : pc[t] = "exchange"

\* C35: _reauth_required_since is set exactly while the state is
\* reauth_required.
C35_SinceIffReauth ==
    (reauth_required_since # None) <=> (auth_state = "reauth_required")

\* C36: a refresh that fails, whatever the cause, leaves _access_token
\* and _token_expires as they were.
C36_FailureKeepsToken ==
    [][\A t \in Tasks :
         (pc[t] \in {"resolve", "exchange"} /\ pc'[t] \in {"fail_close", "idle"}) =>
            /\ access_token' = access_token
            /\ token_expires' = token_expires]_vars

\* C37: when get_hcaptcha_token or generate_via_browser ends with an
\* exception of initialize() or of a navigation, the lock is released and
\* the session is not marked initialized; the caller that takes the lock
\* next on such a session runs close() and then initialize().
C37_FailureLeavesNotReady ==
    [][\A t \in Tasks :
         /\ (bop[t] \in LockedOps /\ bpc[t] \notin {"idle", "lock"} /\ bpc'[t] = "idle"
               /\ bret'.out \in {"browser_error", "config_error"}) =>
               lock' = 0 /\ ~initialized'
         /\ (bpc[t] = "lock" /\ bpc'[t] # "lock" /\ ~initialized) =>
               bpc'[t] \in ClosePcs \cup {"i_start"}]_vars

\* C38: a refresh of the keep-alive thread that fails leaves access_token
\* as it was and the thread goes on to its wait; the thread leaves the
\* loop only when the stop event is set; after close() it starts at most
\* one more refresh, and it terminates.
C38_KeepAliveSurvivesAndStops ==
    /\ [][(ka.at = "request" /\ ka'.at # "request" /\ ka'.last # "jwt") =>
             (ka'.at = "wait" /\ ka'.token = ka.token)]_vars
    /\ [](ka.at = "done" => ka.stop)
    /\ [](ka.after <= 1)
    /\ ka.stop ~> (ka.at = "done")

\* the thread has terminated after close(), having started one more
\* refresh, which failed and left an earlier token in place
C38_StoppedAfterOneMore ==
    /\ ka.at = "done" /\ ka.stop
    /\ ka.after = 1 /\ ka.last # "jwt"
    /\ ka.token < ka.n

====
